---- MODULE Spec2Model ----
(***************************************************************************)
(* FY4B AGRI Level-1 extraction (src/fy4b.py): the class FY4B_AGRI_L1,     *)
(* its cached target grid (geo_desc, line, column), the resampling done by *)
(* extract and the radiometric calibration done by calibrate.              *)
(*                                                                         *)
(* Numbers.  Floating point values are modelled in fixed point:            *)
(*   - latitudes, longitudes and steps are integers in units of 1/Sub of a *)
(*     milli-degree, so that inputs with more than three decimals exist;   *)
(*   - fractional line/column positions are integers in units of 1/PosDen  *)
(*     of a pixel;                                                         *)
(*   - DN values and calibrated values are integers in units of 1/Scale,   *)
(*     Scale = PosDen^2, the denominator bilinear interpolation produces.  *)
(* NaN is a distinguished value that every arithmetic operator propagates. *)
(***************************************************************************)
EXTENDS Integers, Sequences, FiniteSets, TLC

VARIABLES
    cal,        \* self.cal: the /Calibration group of the opened file
    resolution, \* self.resolution
    geo_desc,   \* self.geo_desc: None or a reference to the caller's list
    line,       \* self.line: None or the DataArray of native lines
    column,     \* self.column: None or the DataArray of native columns
    heap,       \* the caller's list objects: reference -> current values
    pc,         \* position of the caller
    args,       \* the arguments of the current / last call
    ret,        \* the outcome of the last call
    pre         \* <<geo_desc, line, column>> as they were when it began

vars == <<cal, resolution, geo_desc, line, column, heap, pc, args, ret, pre>>

inst == <<cal, resolution, geo_desc, line, column>>

---------------------------------------------------------------------------
(* Bounds of the model *)

\* raw DN are unsigned integers 0..DNMax
DNMax == 3
\* number of positions of a DN grid handed directly to calibrate
GridLen == 2
\* the file's native window is lines 0..NativeEnd, columns 0..NativeEnd
NativeEnd == 1
\* units per milli-degree in which latitudes and longitudes are measured
Sub == 2
\* largest latitude / longitude / step, in milli-degrees, of the mesh inputs
MaxMilli == 2

---------------------------------------------------------------------------
(* Values *)

None == "None"

\* None where a DataArray is expected (self.line, self.column)
NoArray == [name |-> None]

NaN == -1000000

\* one pixel spans PixelMilli milli-degrees of the modelled projection
PixelMilli == 2

PosDen == PixelMilli * Sub

Scale == PosDen * PosDen

\* a raw integer DN as a fixed-point value
Fixed(d) == Scale * d

\* dn_values.FillValue: the largest unsigned value (65535 for uint16)
FillValue == Fixed(DNMax)

Channels == 1..14

\* CONTENTS['4000M']: f'Channel{x:02d}'
ChannelName(x) == IF x < 10 THEN "Channel0" \o ToString(x)
                            ELSE "Channel" \o ToString(x)

\* int(channel_name[-2:])
ChannelNum(channel_name) == CHOOSE x \in Channels : ChannelName(x) = channel_name

Calibrations == {"dn", "reflectance", "radiance", "brightness_temperature",
                 "albedo"}

\* a Python sequence read at a 0-based index
PyIndex(seq, i) == seq[i + 1]

\* a function on 1..n as the sequence of its values
List(f) == SubSeq(f, 1, Len(f))

---------------------------------------------------------------------------
(* DataArrays: name, attrs, dims, the two coordinate axes, values[i][j] *)

DataArray(name, attrs, dims, rows, cols, values) ==
    [name |-> name, attrs |-> attrs, dims |-> dims,
     rows |-> rows, cols |-> cols, values |-> values]

\* the elements of an array
Elements(da) == {da.values[i][j] : i \in DOMAIN da.values, j \in DOMAIN da.cols}

\* apply the function f to every element, keeping name, attrs and coordinates
MapValues(da, f) ==
    [da EXCEPT !.values = List([i \in DOMAIN da.values |->
                             List([j \in DOMAIN da.values[i] |-> f[da.values[i][j]]])])]

Positions(da) == {<<i, j>> : i \in DOMAIN da.values, j \in DOMAIN da.cols}

At(da, p) == da.values[p[1]][p[2]]

---------------------------------------------------------------------------
(* The /Calibration group of the file *)

\* CALIBRATION_COEF(SCALE+OFFSET): one (k, b) row per channel, two products
CoefTables ==
    { List([x \in Channels |-> <<x + 1, x - 7>>]),
      List([x \in Channels |-> <<2 * x + 1, 3 - x>>]) }

\* CAL{channel_name}: a lookup curve with n entries, stored in DN order
LookupCurve(x, n) == List([i \in 1..n |-> 100 + 10 * x + (i - 1) * (i - 1)])

\* the curve either stops short of the fill DN or has an entry for it
CurveLengths == {DNMax, DNMax + 1}

CalGroups ==
    { [COEF |-> coef, CAL |-> List([x \in Channels |-> LookupCurve(x, n)])] :
        coef \in CoefTables, n \in CurveLengths }

---------------------------------------------------------------------------
(* calibrate *)

\* the outcome of a call: the exception raised, or the array returned
Return(value) == [outcome |-> "return", exc |-> None, value |-> value]

Raise(exc) == [outcome |-> "raise", exc |-> exc, value |-> NoArray]

NoCall == [outcome |-> "none", exc |-> None, value |-> NoArray]

\* DataArray.fillna(value)
fillna(da, value) ==
    MapValues(da, [x \in Elements(da) |-> IF x = NaN THEN value ELSE x])

\* DataArray.where(da != value): NaN where the condition is false
where_ne(da, value) ==
    MapValues(da, [x \in Elements(da) |-> IF x # value THEN x ELSE NaN])

\* k * x + b in floating point, x a fixed-point value, b in physical units
Linear(k, b, x) == IF x = NaN THEN NaN ELSE k * x + Fixed(b)

\* the channel ordinal used as a 0-based row
CoefRow_Mutant(channel_num) == PyIndex(cal.COEF, channel_num % Len(cal.COEF))

\* the row of the coefficient table calibrate reads for a channel
CoefRow(channel_num) == PyIndex(cal.COEF, channel_num - 1)

\* the curve read against a reversed DN axis
interp_dn_Mutant(cal_table, x) ==
    LET n == Len(cal_table)
        i == x \div Scale
        r == x % Scale
    IN  IF x = NaN \/ x < 0 \/ x > Fixed(n - 1) THEN NaN
        ELSE IF r = 0 THEN Fixed(PyIndex(cal_table, n - 1 - i))
        ELSE Fixed(PyIndex(cal_table, n - 1 - i))
               + (PyIndex(cal_table, n - 2 - i) - PyIndex(cal_table, n - 1 - i)) * r

\* cal_table.swap_dims({dims[0]: 'dn'}).interp(dn=x): the curve re-indexed by
\* its position 0..n-1, linear between entries, NaN outside them
interp_dn(cal_table, x) ==
    LET n == Len(cal_table)
        i == x \div Scale
        r == x % Scale
    IN  IF x = NaN \/ x < 0 \/ x > Fixed(n - 1) THEN NaN
        ELSE IF r = 0 THEN Fixed(PyIndex(cal_table, i))
        ELSE Fixed(PyIndex(cal_table, i))
               + (PyIndex(cal_table, i + 1) - PyIndex(cal_table, i)) * r

\* data.name = f'{channel_name}_{calibration}'
CompositeName(channel_name, calibration) == channel_name \o "_" \o calibration

LinearUnits(calibration) ==
    IF calibration = "reflectance" THEN "100%" ELSE "mW/ (m2 cm-1 sr)"

\* the reflective channels taken to end one channel early
LinearDefined_Mutant(calibration, channel_num) ==
    \/ calibration = "reflectance" /\ channel_num < 6
    \/ calibration = "radiance" /\ channel_num > 6

\* line 96-97: the quantity is computed from the linear coefficients
LinearDefined(calibration, channel_num) ==
    \/ calibration = "reflectance" /\ channel_num <= 6
    \/ calibration = "radiance" /\ channel_num > 6

\* line 101: the quantity is computed from the lookup curve
TableDefined(calibration, channel_num) ==
    calibration = "brightness_temperature" /\ channel_num > 6

\* the name of the result of each branch that builds a new array
ResultName(channel_name, calibration) == CompositeName(channel_name, calibration)

calibrate(channel_name, calibration, dn_values) ==
    IF calibration = "dn"
    THEN Return([dn_values EXCEPT !.attrs = [units |-> "DN"]])
    ELSE
    LET channel_num == ChannelNum(channel_name)
        filled == fillna(dn_values, dn_values.attrs.FillValue)
    IN  IF LinearDefined(calibration, channel_num)
        THEN LET kb == CoefRow(channel_num)
                 masked == where_ne(filled, filled.attrs.FillValue)
                 data == MapValues(masked, [x \in Elements(masked) |->
                                              Linear(kb[1], kb[2], x)])
             IN  Return([data EXCEPT
                           !.attrs = [units |-> LinearUnits(calibration)],
                           !.name = ResultName(channel_name, calibration)])
        ELSE IF TableDefined(calibration, channel_num)
        THEN LET cal_table == cal.CAL[channel_num]
                 data == MapValues(filled, [x \in Elements(filled) |->
                                              interp_dn(cal_table, x)])
             IN  Return([data EXCEPT
                           !.attrs = [units |-> "K"],
                           !.name = ResultName(channel_name, calibration)])
        ELSE Raise("ValueError")

---------------------------------------------------------------------------
(* The /Data group of the file and its window *)

line_begin == 0

line_end == NativeEnd

column_begin == 0

column_end == NativeEnd

\* [i for i in range(begin, end + 1)]
range_list(begin, end) == List([i \in 1..(end + 1 - begin) |-> begin + i - 1])

\* the raw DN of a channel: a fill sample at the first line and column,
\* valid samples 0..DNMax-1 elsewhere
NOM(x, l, c) == IF l = line_begin /\ c = column_begin THEN DNMax
                ELSE (x + l + 2 * c) % DNMax

\* self.ds[f'NOM{channel_name}'] wrapped with its line and column axes
RawChannel(channel_name) ==
    LET lines == range_list(line_begin, line_end)
        columns == range_list(column_begin, column_end)
        x == ChannelNum(channel_name)
    IN  DataArray("NOM" \o channel_name, [FillValue |-> FillValue],
                  <<"line", "column">>, lines, columns,
                  List([i \in DOMAIN lines |->
                     List([j \in DOMAIN columns |->
                             Fixed(NOM(x, lines[i], columns[j]))])]))

---------------------------------------------------------------------------
(* set_geo_desc *)

\* m milli-degrees in the unit of latitudes and longitudes
Milli(m) == m * Sub

\* ceil(a / b) for b > 0
CeilDiv(a, b) == -((-a) \div b)

\* np.arange(start, stop, step): start + i*step up to, excluding, stop
arange(start, stop, step) ==
    LET n == IF step > 0 THEN CeilDiv(stop - start, step)
             ELSE CeilDiv(start - stop, -step)
    IN  List([i \in 1..(IF n > 0 THEN n ELSE 0) |-> start + (i - 1) * step])

\* line 53: np.arange(lat_N, lat_S - 1, -step) / 1000, north to south
lat_axis(lat_S, lat_N, step) == arange(lat_N, lat_S - Milli(1), -step)

\* line 54: np.arange(lon_W, lon_E + 1, step) / 1000, west to east
lon_axis(lon_W, lon_E, step) == arange(lon_W, lon_E + Milli(1), step)

\* projection.latlon2linecolumn at one point: the fractional native line
\* and column, in units of 1/PosDen pixel; north is line 0
latlon2linecolumn(lat, lon, res) ==
    <<Milli(PixelMilli * NativeEnd) - lat, lon>>

\* the state set_geo_desc leaves for the list object g holding values v
GridOf(v, res) ==
    LET lat == lat_axis(v[1], v[2], v[5])
        lon == lon_axis(v[3], v[4], v[5])
        at(i, j) == latlon2linecolumn(lat[i], lon[j], res)
    IN  [line |-> DataArray("line", <<>>, <<"lat", "lon">>, lat, lon,
                     List([i \in DOMAIN lat |->
                             List([j \in DOMAIN lon |-> at(i, j)[1]])])),
         column |-> DataArray("column", <<>>, <<"lat", "lon">>, lat, lon,
                     List([i \in DOMAIN lat |->
                             List([j \in DOMAIN lon |-> at(i, j)[2]])]))]
\* what a call of set_geo_desc(g) does to (geo_desc, line, column); g is
\* None or a reference to a list of the caller
set_geo_desc(g) ==
    IF g = None
    THEN [exc |-> None, geo_desc |-> None, line |-> NoArray, column |-> NoArray]
    ELSE IF Len(heap[g]) # 5
    THEN [exc |-> "ValueError", geo_desc |-> geo_desc, line |-> line,
          column |-> column]
    ELSE LET grid == GridOf(heap[g], resolution)
         IN  [exc |-> None, geo_desc |-> g, line |-> grid.line,
              column |-> grid.column]

---------------------------------------------------------------------------
(* extract *)

\* the truth value of a geo_desc argument or attribute
Truthy(g) == g # None /\ heap[g] # <<>>

\* geo_desc != self.geo_desc: lists compare by their current values
Differs(g) == geo_desc = None \/ heap[g] # heap[geo_desc]

\* a position on an axis: the 1-based index of the node at or below it and
\* the distance to that node, out of PosDen
NodeBelow(pos, axis) == (pos - PosDen * axis[1]) \div PosDen + 1

Distance(pos, axis) == (pos - PosDen * axis[1]) % PosDen

\* method='nearest': the node at or below, unless the next one is closer
NearestNode(pos, axis) ==
    IF 2 * Distance(pos, axis) <= PosDen THEN NodeBelow(pos, axis)
    ELSE NodeBelow(pos, axis) + 1

InAxis(pos, axis) == PosDen * axis[1] <= pos /\ pos <= PosDen * axis[Len(axis)]

\* one term of the bilinear sum: weight w (out of Scale) of the sample (i, j)
Term(da, i, j, w) == IF w = 0 THEN 0 ELSE w * da.values[i][j]

\* dn_values.interp(line=.., column=.., method=..) at one target point
interp_point(da, lpos, cpos, method) ==
    IF ~InAxis(lpos, da.rows) \/ ~InAxis(cpos, da.cols) THEN NaN
    ELSE IF method = "nearest"
    THEN da.values[NearestNode(lpos, da.rows)][NearestNode(cpos, da.cols)]
    ELSE LET i == NodeBelow(lpos, da.rows)
             j == NodeBelow(cpos, da.cols)
             r == Distance(lpos, da.rows)
             s == Distance(cpos, da.cols)
         IN  ( Term(da, i, j, (PosDen - r) * (PosDen - s))
             + Term(da, i + 1, j, r * (PosDen - s))
             + Term(da, i, j + 1, (PosDen - r) * s)
             + Term(da, i + 1, j + 1, r * s) ) \div Scale

\* lines 78-81: the DN grid resampled on the cached line / column grids
interp(da, ln, col, method) ==
    [da EXCEPT !.dims = ln.dims, !.rows = ln.rows, !.cols = ln.cols,
               !.values = List([i \in DOMAIN ln.values |->
                             List([j \in DOMAIN ln.values[i] |->
                                     interp_point(da, ln.values[i][j],
                                                  col.values[i][j], method)])])]

\* the single element of a singleton set
Only(S) == CHOOSE x \in S : TRUE

\* the supplied list compared with the cached one by identity
update_grid_Mutant(g) ==
    IF Truthy(g) /\ g # geo_desc THEN set_geo_desc(g)
    ELSE [exc |-> None, geo_desc |-> geo_desc, line |-> line, column |-> column]

\* lines 70-71: the cache after the optional update of the target grid
update_grid(g) ==
    IF Truthy(g) /\ Differs(g) THEN set_geo_desc(g)
    ELSE [exc |-> None, geo_desc |-> geo_desc, line |-> line, column |-> column]

\* the cached geo_desc tested against None instead of for truth
resample_Mutant(dn, upd, interp_method) ==
    IF upd.geo_desc # None THEN interp(dn, upd.line, upd.column, interp_method)
    ELSE dn

\* lines 76-84: the DN grid handed to calibrate
resample(dn, upd, interp_method) ==
    IF Truthy(upd.geo_desc) THEN interp(dn, upd.line, upd.column, interp_method)
    ELSE dn

\* lines 72-85, given the cache upd that lines 70-71 left
extract_with(upd, channel_name, calibration, interp_method) ==
    IF upd.exc # None
    THEN [cache |-> upd, out |-> Raise(upd.exc)]
    ELSE [cache |-> upd,
          out |-> Only({ calibrate(channel_name, calibration, dn_values) :
                         dn_values \in
                           { resample(dn, upd, interp_method) :
                             dn \in {RawChannel(channel_name)} } })]

\* the whole of extract: the cache after it and what it returns
extract(channel_name, calibration, g, interp_method) ==
    Only({ extract_with(upd, channel_name, calibration, interp_method) :
           upd \in {update_grid(g)} })

---------------------------------------------------------------------------
(* The caller's inputs *)

\* the list objects the caller holds and passes as geo_desc
Refs == {"g1", "g2"}

\* [lat_S, lat_N, lon_W, lon_E, step]: the mesh of the native pixel centres
GeoNodes ==
    <<0, Milli(PixelMilli * NativeEnd), 0, Milli(PixelMilli * NativeEnd),
      Milli(PixelMilli)>>

\* a mesh of half the pixel size whose northern row is off the native window
GeoHalf ==
    <<0, Milli(PixelMilli * NativeEnd + 1), 0, Milli(PixelMilli * NativeEnd),
      Milli(1)>>

\* the values a list of the caller can hold; <<>> is the empty list
GeoLists == {GeoNodes, GeoHalf, <<>>}

InterpMethods == {"nearest", "linear"}

\* the DN of the grids handed directly to calibrate: every raw DN, NaN, and
\* a fractional DN as linear resampling produces
InputDN == {Fixed(d) : d \in 0..DNMax} \cup {NaN, Fixed(0) + 1}

InputGrids ==
    { DataArray(None, [FillValue |-> FillValue], <<"line", "column">>,
                <<0>>, range_list(0, GridLen - 1), <<row>>) :
        row \in [1..GridLen -> InputDN] }

\* every GeoGrid south < north, west < east, step > 0 up to MaxMilli
\* milli-degrees, in steps of 1/Sub milli-degree
MeshInputs ==
    { <<s, n, w, e, st>> : s \in 0..Milli(MaxMilli), n \in 0..Milli(MaxMilli),
                           w \in 0..Milli(MaxMilli), e \in 0..Milli(MaxMilli),
                           st \in 1..Milli(MaxMilli) }

GeoGrids == {v \in MeshInputs : v[1] < v[2] /\ v[3] < v[4]}

---------------------------------------------------------------------------
(* The instance and its callers *)

Cache == <<geo_desc, line, column>>

NoArgs == [op |-> "none"]

\* __init__(file_path, geo_desc): the files are opened, then set_geo_desc;
\* a constructor that raises leaves no instance
Constructed(g) ==
    /\ resolution = "4000M"
    /\ g # None => Len(heap[g]) = 5
    /\ geo_desc = g
    /\ line = IF g = None THEN NoArray ELSE GridOf(heap[g], resolution).line
    /\ column = IF g = None THEN NoArray ELSE GridOf(heap[g], resolution).column
    /\ pc = "idle"
    /\ args = NoArgs
    /\ ret = NoCall
    /\ pre = <<None, NoArray, NoArray>>

Init ==
    /\ cal \in CalGroups
    /\ heap \in [Refs -> GeoLists]
    /\ \E g \in Refs \cup {None} : Constructed(g)

SetGeoDesc(g) ==
    /\ pc = "idle"
    /\ \E r \in {set_geo_desc(g)} :
           /\ geo_desc' = r.geo_desc
           /\ line' = r.line
           /\ column' = r.column
           /\ ret' = IF r.exc = None THEN Return(NoArray) ELSE Raise(r.exc)
    /\ args' = [op |-> "set_geo_desc", geo_desc |-> g]
    /\ pre' = Cache
    /\ pc' = "returned"
    /\ UNCHANGED <<cal, resolution, heap>>

Extract(channel_name, calibration, g, interp_method) ==
    /\ pc = "idle"
    /\ \E r \in {extract(channel_name, calibration, g, interp_method)} :
           /\ geo_desc' = r.cache.geo_desc
           /\ line' = r.cache.line
           /\ column' = r.cache.column
           /\ ret' = r.out
    /\ args' = [op |-> "extract", channel_name |-> channel_name,
                calibration |-> calibration, geo_desc |-> g,
                interp_method |-> interp_method]
    /\ pre' = Cache
    /\ pc' = "returned"
    /\ UNCHANGED <<cal, resolution, heap>>

Calibrate(channel_name, calibration, dn_values) ==
    /\ pc = "idle"
    /\ ret' = calibrate(channel_name, calibration, dn_values)
    /\ args' = [op |-> "calibrate", channel_name |-> channel_name,
                calibration |-> calibration, dn_values |-> dn_values]
    /\ pre' = Cache
    /\ pc' = "returned"
    /\ UNCHANGED <<inst, heap>>

\* the caller takes the outcome of the call and is ready for the next one
Discard ==
    /\ pc = "returned"
    /\ pc' = "idle"
    /\ args' = NoArgs
    /\ ret' = NoCall
    /\ pre' = <<None, NoArray, NoArray>>
    /\ UNCHANGED <<inst, heap>>

\* the caller assigns, in place, to items of a list it holds (g[4] = 0.2)
MutateList(g, v) ==
    /\ pc = "idle"
    /\ Len(v) = Len(heap[g])
    /\ v # heap[g]
    /\ heap' = [heap EXCEPT ![g] = v]
    /\ UNCHANGED <<inst, pc, args, ret, pre>>

\* the caller empties, in place, a list it holds (g.clear())
ClearList(g) ==
    /\ pc = "idle"
    /\ heap[g] # <<>>
    /\ heap' = [heap EXCEPT ![g] = <<>>]
    /\ UNCHANGED <<inst, pc, args, ret, pre>>

Next ==
    \/ \E g \in Refs \cup {None} : SetGeoDesc(g)
    \/ /\ pc = "idle"
       /\ \E x \in Channels, q \in Calibrations, g \in Refs \cup {None},
             m \in InterpMethods : Extract(ChannelName(x), q, g, m)
    \/ \E g \in Refs, v \in GeoLists : MutateList(g, v)
    \/ \E g \in Refs : ClearList(g)
    \/ Discard

Spec == Init /\ [][Next]_vars

---------------------------------------------------------------------------
(* calibrate called directly on a DN grid *)

InitCal ==
    /\ cal \in CalGroups
    /\ heap = [g \in Refs |-> <<>>]
    /\ Constructed(None)

NextCal ==
    \/ /\ pc = "idle"
       /\ \E x \in Channels, q \in Calibrations, dn \in InputGrids :
             Calibrate(ChannelName(x), q,
                       [dn EXCEPT !.name = "NOM" \o ChannelName(x)])
    \/ Discard

SpecCal == InitCal /\ [][NextCal]_vars

---------------------------------------------------------------------------
(* set_geo_desc called on every GeoGrid *)

InitMesh ==
    /\ cal \in CalGroups
    /\ \E v \in GeoGrids : heap = [g \in Refs |-> IF g = "g1" THEN v ELSE <<>>]
    /\ Constructed(None)

NextMesh ==
    \/ SetGeoDesc("g1")
    \/ Discard

SpecMesh == InitMesh /\ [][NextMesh]_vars

---------------------------------------------------------------------------
(* Properties of calibrate (checked under SpecCal) *)

CalibrateDone == pc = "returned" /\ args.op = "calibrate"

\* the ordinal of the channel of the last call, read off its name
Ordinal == CHOOSE x \in Channels : ChannelName(x) = args.channel_name

\* the sentinel of the requested quantity: the DN fill value for raw DN,
\* NaN for a physical quantity
OutputSentinel(q) == IF q = "dn" THEN FillValue ELSE NaN

\* C1: for every channel 1..14 and every quantity name, calibrate returns
\* a result exactly when the quantity is dn, or reflectance on a channel
\* <= 6, or radiance or brightness_temperature on a channel > 6; for every
\* other pair (unknown names included) it raises the calibration error.
C1_ReturnsExactlyWhenDefined ==
    CalibrateDone =>
        LET q == args.calibration
            defined == \/ q = "dn"
                       \/ q = "reflectance" /\ Ordinal <= 6
                       \/ q = "radiance" /\ Ordinal > 6
                       \/ q = "brightness_temperature" /\ Ordinal > 6
        IN  IF defined THEN ret.outcome = "return"
            ELSE ret.outcome = "raise" /\ ret.exc = "ValueError"

\* reflectance asked of the first thermal channel raised the error
C1_Witness ==
    /\ CalibrateDone
    /\ args.calibration = "reflectance"
    /\ Ordinal = 7
    /\ ret.outcome = "raise"
    /\ ret.exc = "ValueError"

\* C2: every position of the input grid whose DN is the fill sentinel holds
\* the output sentinel in the result of calibrate, for every quantity,
\* whatever the coefficients and the DN range of the lookup curve are.
C2_FillStaysSentinel ==
    CalibrateDone /\ ret.outcome = "return" =>
        \A p \in Positions(args.dn_values) :
            At(args.dn_values, p) = FillValue
                => At(ret.value, p) = OutputSentinel(args.calibration)

\* C3: where a linear calibration is defined (reflectance for c <= 6,
\* radiance for c > 6), every position whose DN d is not the fill sentinel
\* holds exactly k*d + b, (k, b) being row c (counted from 1) of the
\* coefficient table, whatever the DN at the other positions are.
C3_LinearExact ==
    CalibrateDone
    /\ ( \/ args.calibration = "reflectance" /\ Ordinal <= 6
         \/ args.calibration = "radiance" /\ Ordinal > 6 )
    => /\ ret.outcome = "return"
       /\ \A p \in Positions(args.dn_values) :
            LET d == At(args.dn_values, p)
                k == cal.COEF[Ordinal][1]
                b == cal.COEF[Ordinal][2]
            IN  d # FillValue =>
                  At(ret.value, p) = IF d = NaN THEN NaN ELSE k * d + Fixed(b)

\* a grid with a fill sample next to a valid one was calibrated linearly,
\* and the valid one came out finite
C3_Witness ==
    /\ CalibrateDone
    /\ args.calibration = "radiance"
    /\ Ordinal = 14
    /\ At(args.dn_values, <<1, 1>>) = FillValue
    /\ At(args.dn_values, <<1, 2>>) = Fixed(1)
    /\ ret.outcome = "return"
    /\ At(ret.value, <<1, 2>>) # NaN

\* C4: for every emissive channel (> 6) and every DN that is a breakpoint
\* of the channel's lookup curve, brightness_temperature is exactly the
\* value tabulated for that DN.
C4_BreakpointExact ==
    CalibrateDone /\ args.calibration = "brightness_temperature" /\ Ordinal > 6
    => /\ ret.outcome = "return"
       /\ \A p \in Positions(args.dn_values) :
            \A i \in 0..(Len(cal.CAL[Ordinal]) - 1) :
                At(args.dn_values, p) = Fixed(i)
                    => At(ret.value, p) = Fixed(cal.CAL[Ordinal][i + 1])

\* a brightness temperature was read off at the second breakpoint
C4_Witness ==
    /\ CalibrateDone
    /\ args.calibration = "brightness_temperature"
    /\ Ordinal = 7
    /\ At(args.dn_values, <<1, 1>>) = Fixed(1)
    /\ ret.outcome = "return"
    /\ At(ret.value, <<1, 1>>) = Fixed(cal.CAL[7][2])

\* C5: every result calibrate returns, raw DN included, is named
\* '{channel_name}_{requested_quantity}'.
C5_CompositeName ==
    CalibrateDone /\ ret.outcome = "return"
    => ret.value.name = args.channel_name \o "_" \o args.calibration

---------------------------------------------------------------------------
(* Properties of the instance (checked under Spec) *)

ExtractDone == pc = "returned" /\ args.op = "extract"

ExtractReturned == ExtractDone /\ ret.outcome = "return"

\* the call supplied a target grid (extract leaves the caller's lists alone,
\* so their values are those of the time of the call)
Supplied == Truthy(args.geo_desc)

\* the result lies on the lat/lon axes of the line grid cached after the call
OnCachedGrid ==
    /\ line # NoArray
    /\ ret.value.dims = <<"lat", "lon">>
    /\ ret.value.rows = line.rows
    /\ ret.value.cols = line.cols

\* the result lies on the native line/column window of the file
OnNativeGrid ==
    /\ ret.value.dims = <<"line", "column">>
    /\ ret.value.rows = range_list(line_begin, line_end)
    /\ ret.value.cols = range_list(column_begin, column_end)

\* C6 as claimed: in every call of extract the DN grid is resampled at the
\* native coordinates if a target grid was supplied to that call, and is
\* on the native line/column grid otherwise, whatever calls came before.
C6_ResampledIffSupplied ==
    ExtractReturned => IF Supplied THEN OnCachedGrid ELSE OnNativeGrid

\* C6 as amended: extract resamples at the native coordinates cached on the
\* instance whenever a target grid was supplied to the call or an earlier
\* constructor, set_geo_desc or extract call left a non-empty one cached;
\* the result is on the native grid only when neither is the case.
C6_ResampledIffSuppliedOrCached ==
    ExtractReturned =>
        IF Supplied \/ Truthy(pre[1]) THEN OnCachedGrid ELSE OnNativeGrid

\* a call that supplied no grid was resampled on the cached one
C6_Witness ==
    /\ ExtractReturned
    /\ args.geo_desc = None
    /\ pre[1] # None
    /\ OnCachedGrid

\* the line and column grids projected from the values v of a list
Projected(v) ==
    /\ Len(v) = 5
    /\ line = GridOf(v, resolution).line
    /\ column = GridOf(v, resolution).column

\* C7: after every constructor, set_geo_desc and extract call the cached
\* line and column grids are the projection of the mesh of the current
\* values of the cached geo_desc (or all three are None), and an extract
\* called with a non-empty geo_desc g resamples on the projection of the
\* values g has at the time of the call.  (A cached list that was emptied
\* in place has no mesh and is left aside.)
C7_CacheIsProjection ==
    /\ pc = "returned" /\ args.op \in {"set_geo_desc", "extract"}
          /\ ret.outcome = "return"
       => /\ geo_desc = None => line = NoArray /\ column = NoArray
          /\ Truthy(geo_desc) => Projected(heap[geo_desc])
    /\ ExtractReturned /\ Supplied
       => Projected(heap[args.geo_desc]) /\ OnCachedGrid

\* the native nodes whose samples enter the resampled DN at a position
Contributing(lpos, cpos, method) ==
    LET rows == range_list(line_begin, line_end)
        cols == range_list(column_begin, column_end)
        along(pos, axis) ==
            IF method = "nearest" THEN {NearestNode(pos, axis)}
            ELSE {NodeBelow(pos, axis)}
                   \cup (IF Distance(pos, axis) > 0
                         THEN {NodeBelow(pos, axis) + 1} ELSE {})
    IN  IF InAxis(lpos, rows) /\ InAxis(cpos, cols)
        THEN {<<rows[i], cols[j]>> : i \in along(lpos, rows), j \in along(cpos, cols)}
        ELSE {}

\* some fill-valued native sample enters the resampled DN of target point p
FillContributes(p) ==
    \E n \in Contributing(At(line, p), At(column, p), args.interp_method) :
        NOM(ChannelNum(args.channel_name), n[1], n[2]) = DNMax

\* C8: when extract resamples with 'nearest' or 'linear' and calibrates to
\* a physical quantity, every target point whose resampled DN was computed
\* from at least one fill-valued native sample holds the output sentinel
\* (NaN), never a finite physical value.
C8_FillNeverContributes ==
    ExtractReturned /\ OnCachedGrid /\ args.calibration # "dn" =>
        \A p \in Positions(ret.value) :
            FillContributes(p) => At(ret.value, p) = NaN

\* C10 as claimed: an extract that raises the calibration error leaves
\* geo_desc, line and column as they were before the call, also when the
\* call supplied a geo_desc different from the cached one.
C10_ErrorLeavesCache ==
    ExtractDone /\ ret.outcome = "raise" => Cache = pre

\* the supplied list differs in value from the list cached before the call
SuppliedDiffers ==
    Supplied /\ (pre[1] = None \/ heap[args.geo_desc] # heap[pre[1]])

\* C10 as amended: an extract that raises the calibration error leaves the
\* cache as it was when the call supplied no geo_desc, an empty one or one
\* equal in value to the cached one; when it supplied a different one the
\* cache holds that geo_desc and its projected grids when the error is raised.
C10_ErrorAfterGridUpdate ==
    ExtractDone /\ ret.outcome = "raise" =>
        /\ ret.exc = "ValueError"
        /\ IF SuppliedDiffers
           THEN geo_desc = args.geo_desc /\ Projected(heap[args.geo_desc])
           ELSE Cache = pre

\* a failing extract replaced the cached grid by the one it was given
C10_Witness ==
    /\ ExtractDone
    /\ ret.outcome = "raise"
    /\ pre[1] # None
    /\ SuppliedDiffers
    /\ Cache # pre
    /\ geo_desc = args.geo_desc

---------------------------------------------------------------------------
(* Properties of the mesh (checked under SpecMesh) *)

MeshDone == pc = "returned" /\ args.op = "set_geo_desc" /\ ret.outcome = "return"

\* C9: for south < north, west < east and step > 0 the mesh is ordered and
\* rectangular: latitudes start at north and decrease by step, longitudes
\* start at west and increase by step, every latitude lies in
\* [south, north] and every longitude in [west, east], also for inputs
\* with more than three decimal places.
C9_MeshInsideGrid ==
    MeshDone =>
        LET v == heap[args.geo_desc]
            lat == line.rows
            lon == line.cols
        IN  /\ Len(lat) > 0 /\ lat[1] = v[2]
            /\ Len(lon) > 0 /\ lon[1] = v[3]
            /\ \A i \in 1..(Len(lat) - 1) : lat[i + 1] = lat[i] - v[5]
            /\ \A j \in 1..(Len(lon) - 1) : lon[j + 1] = lon[j] + v[5]
            /\ \A i \in DOMAIN lat : v[1] <= lat[i] /\ lat[i] <= v[2]
            /\ \A j \in DOMAIN lon : v[3] <= lon[j] /\ lon[j] <= v[4]
            /\ \A i \in DOMAIN line.values : Len(line.values[i]) = Len(lon)
            /\ Len(line.values) = Len(lat)

====
